---- MODULE Spec2Model ----
(***************************************************************************)
(* Model of the SwiftChat matchmaking and signaling relay (the socket.io   *)
(* server) together with the TextChat page that drives it.                 *)
(*                                                                         *)
(* The server keeps five stores (textChatQueue, videoChatQueue,            *)
(* privateRooms, socketToRoom, socketToUsername); socket.io keeps, next to *)
(* them, the membership of its broadcast rooms (socket.join/socket.leave), *)
(* which is what socket.to(roomId).emit(...) addresses.  Both are state.   *)
(* One action models one event handler, run to completion (node runs the   *)
(* handlers one at a time).                                                *)
(***************************************************************************)
EXTENDS Integers, Sequences, FiniteSets, TLC

\* ------------------------------------------------------------------ bounds
NumSockets == 3
NumCodes == 2
MaxRequests == 3
MaxNexts == 2

Sockets == 1..NumSockets
Codes == 1..NumCodes

\* Display names a client may put in a join payload.
Names == {"Anonymous", "Kim"}
NoName == "undefined"

\* ------------------------------------------------------------- room names
\* A room name is a prefix and a code: `text_${code}`, `video_${code}`, or a
\* bare code (what Landing.generateRoomCode makes, prefix "").
NoRoom == <<"none", 0>>
TextRoomId(c) == <<"text_", c>>
VideoRoomId(c) == <<"video_", c>>
PrivateCode(c) == <<"", c>>

TextRoomIds == {TextRoomId(c) : c \in Codes}
VideoRoomIds == {VideoRoomId(c) : c \in Codes}
RandomRoomIds == TextRoomIds \cup VideoRoomIds
\* roomId values a client puts in a join payload: a code of its own, or any
\* other non-empty string, such as the identifier of a random room.
ClientRoomIds == {PrivateCode(1), TextRoomId(1)}
\* socket.io puts every socket in a room named by its own id.
SidRoom(s) == <<"sid", s>>
\* roomId values of a relay payload; NoRoom is a payload without the field.
PayloadRoomIds == ClientRoomIds \cup {NoRoom}

VARIABLES
    running,            \* the server process has not been ended by an uncaught exception
    connected,          \* sockets inside io.on('connection') and not yet closed
    closed,             \* sockets whose disconnect handler has run
    textChatQueue,      \* part_000:19
    videoChatQueue,     \* part_000:20
    privateRooms,       \* part_000:21, roomId -> [participants, messages]
    socketToRoom,       \* part_000:22
    socketToUsername,   \* part_000:23
    rooms,              \* socket.io: socket -> the rooms it has join()ed
    emitted,            \* the events the last handler emitted, in order
    last,               \* the event the last handler was run for
    nRequests,          \* the number of join and relay events handled so far
    textRequests,       \* the number of joinTextChat requests handled so far
    chatMatches,        \* the number of chatMatched pairs formed so far
    mounted,            \* TextChat: the sockets whose page has run its effect
    isConnected,        \* TextChat: the isConnected state of each page
    toServer,           \* events a client has emitted that the server has not handled
    toClient,           \* events the server has emitted that the client has not handled
    nNexts,             \* the number of Next clicks so far
    received,           \* VideoChat: the signaling events each page has handled, in order
    served              \* VideoChat: the number of events the server has taken from each socket

vars == <<running, connected, closed, textChatQueue, videoChatQueue, privateRooms,
          socketToRoom, socketToUsername, rooms, emitted, last,
          nRequests, textRequests, chatMatches,
          mounted, isConnected, toServer, toClient, nNexts, received, served>>

counters == <<nRequests, textRequests, chatMatches>>

clients == <<mounted, isConnected, toServer, toClient, nNexts, received, served>>

stores == <<textChatQueue, videoChatQueue, privateRooms, socketToRoom, socketToUsername>>

\* ----------------------------------------------------------------- events
Event(to, ev, roomId, username, offer, participants) ==
    [to |-> to, ev |-> ev, roomId |-> roomId, username |-> username,
     shouldCreateOffer |-> offer, participants |-> participants]

Input(op, s, roomId, username) ==
    [op |-> op, socket |-> s, roomId |-> roomId, username |-> username]

\* ------------------------------------------------------------- socket.io
\* The sockets of a set in ascending order.
RECURSIVE SetToSeq(_)
SetToSeq(S) ==
    IF S = {} THEN <<>>
    ELSE LET m == CHOOSE x \in S : \A y \in S : x <= y
         IN <<m>> \o SetToSeq(S \ {m})

\* socket.to(roomId): every connected socket in the broadcast room, but the sender.
BroadcastTargets(s, roomId, members) ==
    {t \in connected : roomId \in members[t]} \ {s}

\* socket.to(roomId).emit(ev, payload)
Broadcast(s, roomId, members, ev, username, offer, participants) ==
    LET to == SetToSeq(BroadcastTargets(s, roomId, members))
    IN [i \in 1..Len(to) |-> Event(to[i], ev, NoRoom, username, offer, participants)]

\* socket.join(roomId)
SocketJoin(members, s, roomId) == [members EXCEPT ![s] = @ \cup {roomId}]

\* socket.leave(roomId)
SocketLeave(members, s, roomId) == [members EXCEPT ![s] = @ \ {roomId}]

\* ------------------------------------------------------------------ Init
Init ==
    /\ running = TRUE
    /\ connected = {}
    /\ closed = {}
    /\ textChatQueue = <<>>
    /\ videoChatQueue = <<>>
    /\ privateRooms = [r \in {} |-> 0]
    /\ socketToRoom = [s \in {} |-> NoRoom]
    /\ socketToUsername = [s \in {} |-> NoName]
    /\ rooms = [s \in Sockets |-> {}]
    /\ emitted = <<>>
    /\ last = Input("init", 0, NoRoom, NoName)
    /\ nRequests = 0
    /\ textRequests = 0
    /\ chatMatches = 0
    /\ mounted = {}
    /\ isConnected = [s \in Sockets |-> FALSE]
    /\ toServer = [s \in Sockets |-> <<>>]
    /\ toClient = [s \in Sockets |-> <<>>]
    /\ nNexts = 0
    /\ received = [s \in Sockets |-> <<>>]
    /\ served = [s \in Sockets |-> 0]

\* Map.get / Map.set / Map.delete
MapGet(m, k, none) == IF k \in DOMAIN m THEN m[k] ELSE none
MapSet(m, k, v) == [x \in DOMAIN m \cup {k} |-> IF x = k THEN v ELSE m[x]]
MapDelete(m, k) == [x \in DOMAIN m \ {k} |-> m[x]]

\* An event of a socket reaches its handlers while the socket is connected.
Handle(s) == s \in connected

\* io.on('connection'): a socket with a fresh id, in the room of its own id.
\* Ids are opaque, so they are numbered in the order the sockets connect.
Connect(s) ==
    /\ running
    /\ s = Cardinality(connected \cup closed) + 1
    /\ connected' = connected \cup {s}
    /\ rooms' = [rooms EXCEPT ![s] = {SidRoom(s)}]
    /\ emitted' = <<>>
    /\ last' = Input("connection", s, NoRoom, NoName)
    /\ UNCHANGED <<running, closed, stores>>

\* --------------------------------------------------------------- joining
\* generateRoomId(): six base-36 digits of Math.random(); any code may come out.
generateRoomId == Codes

\* A match that waits for a second waiter: the length test is off by one.
MatchWhenTwoWaiting(s, username, queue, roomId, ev, offerNew, offerOld) ==
    IF Len(queue) > 1
    THEN LET partner == Head(queue)
         IN [queue |-> Tail(queue),
             rooms |-> SocketJoin(SocketJoin(rooms, s, roomId), partner.socket, roomId),
             socketToRoom |-> MapSet(MapSet(socketToRoom, s, roomId), partner.socket, roomId),
             emitted |-> <<Event(s, ev, roomId, partner.username, offerNew, <<>>),
                           Event(partner.socket, ev, roomId, username, offerOld, <<>>)>>]
    ELSE [queue |-> Append(queue, [socket |-> s, username |-> username]),
          rooms |-> rooms,
          socketToRoom |-> socketToRoom,
          emitted |-> <<>>]

\* A match that reads the head of the queue and leaves it there.
MatchWithoutShift(s, username, queue, roomId, ev, offerNew, offerOld) ==
    IF Len(queue) > 0
    THEN LET partner == Head(queue)
         IN [queue |-> queue,
             rooms |-> SocketJoin(SocketJoin(rooms, s, roomId), partner.socket, roomId),
             socketToRoom |-> MapSet(MapSet(socketToRoom, s, roomId), partner.socket, roomId),
             emitted |-> <<Event(s, ev, roomId, partner.username, offerNew, <<>>),
                           Event(partner.socket, ev, roomId, username, offerOld, <<>>)>>]
    ELSE [queue |-> Append(queue, [socket |-> s, username |-> username]),
          rooms |-> rooms,
          socketToRoom |-> socketToRoom,
          emitted |-> <<>>]

\* The body shared by joinTextChat and joinVideoChat, which differ in the
\* queue, the prefix, the event name and the shouldCreateOffer flags.
MatchOrEnqueue(s, username, queue, roomId, ev, offerNew, offerOld) ==
    IF Len(queue) > 0
    THEN LET partner == Head(queue)
         IN [queue |-> Tail(queue),
             rooms |-> SocketJoin(SocketJoin(rooms, s, roomId), partner.socket, roomId),
             socketToRoom |-> MapSet(MapSet(socketToRoom, s, roomId), partner.socket, roomId),
             emitted |-> <<Event(s, ev, roomId, partner.username, offerNew, <<>>),
                           Event(partner.socket, ev, roomId, username, offerOld, <<>>)>>]
    ELSE [queue |-> Append(queue, [socket |-> s, username |-> username]),
          rooms |-> rooms,
          socketToRoom |-> socketToRoom,
          emitted |-> <<>>]

\* A joinTextChat that looks for its partner among the video waiters.
JoinTextChatFromVideoQueue(s, username) ==
    /\ Handle(s)
    /\ \E c \in generateRoomId :
        LET r == MatchOrEnqueue(s, username, videoChatQueue, TextRoomId(c),
                                "chatMatched", FALSE, FALSE)
        IN /\ socketToUsername' = MapSet(socketToUsername, s, username)
           /\ videoChatQueue' = r.queue
           /\ rooms' = r.rooms
           /\ socketToRoom' = r.socketToRoom
           /\ emitted' = r.emitted
    /\ last' = Input("joinTextChat", s, NoRoom, username)
    /\ UNCHANGED <<running, connected, closed, textChatQueue, privateRooms>>

\* socket.on('joinTextChat')
JoinTextChat(s, username) ==
    /\ Handle(s)
    /\ \E c \in generateRoomId :
        LET r == MatchOrEnqueue(s, username, textChatQueue, TextRoomId(c),
                                "chatMatched", FALSE, FALSE)
        IN /\ socketToUsername' = MapSet(socketToUsername, s, username)
           /\ textChatQueue' = r.queue
           /\ rooms' = r.rooms
           /\ socketToRoom' = r.socketToRoom
           /\ emitted' = r.emitted
    /\ last' = Input("joinTextChat", s, NoRoom, username)
    /\ UNCHANGED <<running, connected, closed, videoChatQueue, privateRooms>>

\* A joinVideoChat that gives the offerer role to the dequeued waiter.
JoinVideoChatOfferSwapped(s, username) ==
    /\ Handle(s)
    /\ \E c \in generateRoomId :
        LET r == MatchOrEnqueue(s, username, videoChatQueue, VideoRoomId(c),
                                "videoChatMatched", FALSE, TRUE)
        IN /\ socketToUsername' = MapSet(socketToUsername, s, username)
           /\ videoChatQueue' = r.queue
           /\ rooms' = r.rooms
           /\ socketToRoom' = r.socketToRoom
           /\ emitted' = r.emitted
    /\ last' = Input("joinVideoChat", s, NoRoom, username)
    /\ UNCHANGED <<running, connected, closed, textChatQueue, privateRooms>>

\* socket.on('joinVideoChat')
JoinVideoChat(s, username) ==
    /\ Handle(s)
    /\ \E c \in generateRoomId :
        LET r == MatchOrEnqueue(s, username, videoChatQueue, VideoRoomId(c),
                                "videoChatMatched", TRUE, FALSE)
        IN /\ socketToUsername' = MapSet(socketToUsername, s, username)
           /\ videoChatQueue' = r.queue
           /\ rooms' = r.rooms
           /\ socketToRoom' = r.socketToRoom
           /\ emitted' = r.emitted
    /\ last' = Input("joinVideoChat", s, NoRoom, username)
    /\ UNCHANGED <<running, connected, closed, textChatQueue, privateRooms>>

\* An unshift in place of the push: the new name goes to the front.
AddParticipantAtFront(participants, username) ==
    IF \E i \in 1..Len(participants) : participants[i] = username
    THEN participants
    ELSE <<username>> \o participants

\* A push without the includes test.
AddParticipantUnchecked(participants, username) == Append(participants, username)

\* Array.includes / push on the participants of a room.
AddParticipant(participants, username) ==
    IF \E i \in 1..Len(participants) : participants[i] = username
    THEN participants
    ELSE Append(participants, username)

\* socket.on('joinPrivateRoom')
JoinPrivateRoom(s, roomId, username) ==
    /\ Handle(s)
    /\ LET old == IF roomId \in DOMAIN privateRooms
                  THEN privateRooms[roomId]
                  ELSE [participants |-> <<>>, messages |-> <<>>]
           room == [old EXCEPT !.participants = AddParticipant(@, username)]
           members == SocketJoin(rooms, s, roomId)
           n == Len(room.participants)
       IN /\ socketToUsername' = MapSet(socketToUsername, s, username)
          /\ socketToRoom' = MapSet(socketToRoom, s, roomId)
          /\ rooms' = members
          /\ privateRooms' = MapSet(privateRooms, roomId, room)
          /\ emitted' =
                <<Event(s, "roomJoined", NoRoom, NoName,
                        n = 2 /\ room.participants[1] = username, room.participants)>>
                \o Broadcast(s, roomId, members, "userJoinedRoom", username,
                             n = 2 /\ room.participants[1] # username, room.participants)
    /\ last' = Input("joinPrivateRoom", s, roomId, username)
    /\ UNCHANGED <<running, connected, closed, textChatQueue, videoChatQueue>>

\* A join event that arrives without a payload: data is undefined, and the
\* first statement of each join handler reads a property of it (data.username,
\* or the destructuring of data), which throws a TypeError before any store is
\* touched.  Nothing catches it: socket.io calls the listener unguarded and the
\* server registers no uncaughtException handler, so node ends the process,
\* and with it every connection and every store.
JoinEvents == {"joinTextChat", "joinVideoChat", "joinPrivateRoom"}

MalformedJoin(s, op) ==
    /\ Handle(s)
    /\ op \in JoinEvents
    /\ running' = FALSE
    /\ connected' = {}
    /\ rooms' = [t \in Sockets |-> {}]
    /\ textChatQueue' = <<>>
    /\ videoChatQueue' = <<>>
    /\ privateRooms' = [r \in {} |-> 0]
    /\ socketToRoom' = [t \in {} |-> NoRoom]
    /\ socketToUsername' = [t \in {} |-> NoName]
    /\ emitted' = <<>>
    /\ last' = Input(op, s, NoRoom, NoName)
    /\ UNCHANGED closed

\* ---------------------------------------------------------------- relay
\* A relay that also keeps the message in the log of the private room named
\* by the payload.
RelayedAndLogged(s, op, payloadRoomId, events) ==
    /\ Handle(s)
    /\ emitted' = events
    /\ last' = Input(op, s, payloadRoomId, NoName)
    /\ privateRooms' = IF payloadRoomId \in DOMAIN privateRooms
                       THEN [privateRooms EXCEPT ![payloadRoomId].messages = <<op>>]
                       ELSE privateRooms
    /\ UNCHANGED <<running, connected, closed, textChatQueue, videoChatQueue,
                   socketToRoom, socketToUsername, rooms>>

\* A handler that changes no store and no room membership.
Relayed(s, op, payloadRoomId, events) ==
    /\ Handle(s)
    /\ emitted' = events
    /\ last' = Input(op, s, payloadRoomId, NoName)
    /\ UNCHANGED <<running, connected, closed, stores, rooms>>

\* socket.on('sendMessage'): addressed by the sender's binding.
SendMessageEvents(s) ==
    LET roomId == MapGet(socketToRoom, s, NoRoom)
    IN IF roomId # NoRoom
       THEN Broadcast(s, roomId, rooms, "messageReceived",
                      MapGet(socketToUsername, s, NoName), FALSE, <<>>)
       ELSE <<>>

SendMessage(s) == Relayed(s, "sendMessage", NoRoom, SendMessageEvents(s))

\* socket.on('sendRoomMessage'): addressed by the roomId of the payload; the
\* sender's binding is not read.  Without the field, socket.to(undefined) names
\* no room of any socket.
SendRoomMessageEvents(s, payloadRoomId) ==
    Broadcast(s, payloadRoomId, rooms, "roomMessage", NoName, FALSE, <<>>)

SendRoomMessage(s, payloadRoomId) ==
    Relayed(s, "sendRoomMessage", payloadRoomId, SendRoomMessageEvents(s, payloadRoomId))

\* socketToRoom.get(socket.id) || data.roomId
WebrtcRoomId(s, payloadRoomId) ==
    LET bound == MapGet(socketToRoom, s, NoRoom)
    IN IF bound # NoRoom THEN bound ELSE payloadRoomId

\* The body of the three webrtc-* handlers, which differ in the event name.
WebrtcEvents(s, ev, payloadRoomId) ==
    LET roomId == WebrtcRoomId(s, payloadRoomId)
    IN IF roomId # NoRoom
       THEN Broadcast(s, roomId, rooms, ev, NoName, FALSE, <<>>)
       ELSE <<>>

\* socket.on('webrtc-offer')
WebrtcOffer(s, payloadRoomId) ==
    Relayed(s, "webrtc-offer", payloadRoomId, WebrtcEvents(s, "webrtc-offer", payloadRoomId))

\* socket.on('webrtc-answer')
WebrtcAnswer(s, payloadRoomId) ==
    Relayed(s, "webrtc-answer", payloadRoomId, WebrtcEvents(s, "webrtc-answer", payloadRoomId))

\* socket.on('webrtc-ice-candidate')
WebrtcIceCandidate(s, payloadRoomId) ==
    Relayed(s, "webrtc-ice-candidate", payloadRoomId,
            WebrtcEvents(s, "webrtc-ice-candidate", payloadRoomId))

\* -------------------------------------------------------------- leaving
\* A findNewPartner that notifies the room and keeps the caller's binding.
FindNewPartnerKeepsBinding(s) ==
    /\ Handle(s)
    /\ LET roomId == MapGet(socketToRoom, s, NoRoom)
       IN IF roomId # NoRoom
          THEN /\ emitted' = Broadcast(s, roomId, rooms, "partnerDisconnected",
                                       NoName, FALSE, <<>>)
               /\ rooms' = SocketLeave(rooms, s, roomId)
               /\ UNCHANGED socketToRoom
          ELSE /\ emitted' = <<>>
               /\ UNCHANGED <<rooms, socketToRoom>>
    /\ last' = Input("findNewPartner", s, NoRoom, NoName)
    /\ UNCHANGED <<running, connected, closed, textChatQueue, videoChatQueue, privateRooms,
                   socketToUsername>>

\* socket.on('findNewPartner')
FindNewPartner(s) ==
    /\ Handle(s)
    /\ LET roomId == MapGet(socketToRoom, s, NoRoom)
       IN IF roomId # NoRoom
          THEN /\ emitted' = Broadcast(s, roomId, rooms, "partnerDisconnected",
                                       NoName, FALSE, <<>>)
               /\ rooms' = SocketLeave(rooms, s, roomId)
               /\ socketToRoom' = MapDelete(socketToRoom, s)
          ELSE /\ emitted' = <<>>
               /\ UNCHANGED <<rooms, socketToRoom>>
    /\ last' = Input("findNewPartner", s, NoRoom, NoName)
    /\ UNCHANGED <<running, connected, closed, textChatQueue, videoChatQueue, privateRooms,
                   socketToUsername>>

\* A disconnect that leaves the queues alone.
RemoveFromQueueSkipped(queue, s) == queue

\* findIndex(item => item.socket.id === id), then splice(index, 1): the first
\* entry of the socket goes, any other stays.
RemoveFromQueue(queue, s) ==
    IF \E i \in 1..Len(queue) : queue[i].socket = s
    THEN LET k == CHOOSE i \in 1..Len(queue) :
                      /\ queue[i].socket = s
                      /\ \A j \in 1..(i - 1) : queue[j].socket # s
         IN SubSeq(queue, 1, k - 1) \o SubSeq(queue, k + 1, Len(queue))
    ELSE queue

\* participants.filter(p => p !== username)
RemoveParticipant(participants, username) ==
    SelectSeq(participants, LAMBDA p : p # username)

\* The private-room part of the disconnect handler.
CleanPrivateRoom(table, roomId, username) ==
    IF roomId \in DOMAIN table
    THEN LET left == RemoveParticipant(table[roomId].participants, username)
         IN IF Len(left) = 0
            THEN MapDelete(table, roomId)
            ELSE [table EXCEPT ![roomId].participants = left]
    ELSE table

\* socket.on('disconnect').  socket.io has taken the socket out of every
\* broadcast room and out of the namespace before the handler runs.
Disconnect(s) ==
    /\ Handle(s)
    /\ connected' = connected \ {s}
    /\ closed' = closed \cup {s}
    /\ rooms' = [rooms EXCEPT ![s] = {}]
    /\ textChatQueue' = RemoveFromQueue(textChatQueue, s)
    /\ videoChatQueue' = RemoveFromQueue(videoChatQueue, s)
    /\ LET roomId == MapGet(socketToRoom, s, NoRoom)
           username == MapGet(socketToUsername, s, NoName)
           table == CleanPrivateRoom(privateRooms, roomId, username)
       IN IF roomId # NoRoom
          THEN /\ privateRooms' = table
               /\ emitted' =
                    Broadcast(s, roomId, rooms, "partnerDisconnected", NoName, FALSE, <<>>)
                    \o (IF roomId \in DOMAIN privateRooms
                        THEN Broadcast(s, roomId, rooms, "userLeftRoom", username, FALSE,
                                       RemoveParticipant(privateRooms[roomId].participants,
                                                         username))
                        ELSE <<>>)
          ELSE /\ privateRooms' = privateRooms
               /\ emitted' = <<>>
    /\ socketToRoom' = MapDelete(socketToRoom, s)
    /\ socketToUsername' = MapDelete(socketToUsername, s)
    /\ last' = Input("disconnect", s, NoRoom, NoName)
    /\ UNCHANGED running

\* ------------------------------------------------------------------ Next
\* The model follows the server for MaxRequests join and relay events.  The
\* other events (connection, findNewPartner, disconnect) only take down what
\* these built up, and are not counted.
Request ==
    /\ nRequests < MaxRequests
    /\ nRequests' = nRequests + 1
    /\ UNCHANGED clients

NoRequest == UNCHANGED <<nRequests, clients>>

\* A joinTextChat request is counted with the chatMatched pair it may form.
CountText ==
    /\ textRequests' = textRequests + 1
    /\ chatMatches' = chatMatches + (IF \E i \in 1..Len(emitted') : emitted'[i].ev = "chatMatched"
                                     THEN 1 ELSE 0)

NoText == UNCHANGED <<textRequests, chatMatches>>

\* The server under every event a socket.io client can send it.
Next ==
    \/ \E s \in Sockets : Connect(s) /\ NoRequest /\ NoText
    \/ \E s \in Sockets, u \in Names : Request /\ JoinTextChat(s, u) /\ CountText
    \/ \E s \in Sockets, u \in Names : Request /\ JoinVideoChat(s, u) /\ NoText
    \/ \E s \in Sockets, r \in ClientRoomIds, u \in Names :
            Request /\ JoinPrivateRoom(s, r, u) /\ NoText
    \/ \E s \in Sockets : Request /\ SendMessage(s) /\ NoText
    \/ \E s \in Sockets, r \in PayloadRoomIds : Request /\ SendRoomMessage(s, r) /\ NoText
    \/ \E s \in Sockets, r \in PayloadRoomIds : Request /\ WebrtcOffer(s, r) /\ NoText
    \/ \E s \in Sockets, r \in PayloadRoomIds : Request /\ WebrtcAnswer(s, r) /\ NoText
    \/ \E s \in Sockets, r \in PayloadRoomIds : Request /\ WebrtcIceCandidate(s, r) /\ NoText
    \/ \E s \in Sockets : FindNewPartner(s) /\ NoRequest /\ NoText
    \/ \E s \in Sockets : Disconnect(s) /\ NoRequest /\ NoText
    \/ \E s \in Sockets, op \in JoinEvents : MalformedJoin(s, op) /\ NoRequest /\ NoText

Spec == Init /\ [][Next]_vars

\* ------------------------------------------------- the TextChat protocol
\* The server driven by TextChat pages alone: every event it handles is one a
\* page emitted, in the order the page emitted it, and every event it emits
\* reaches the page's handlers in order.  The page's sendMessage is left to
\* Spec: it changes nothing on the server and the page only lists what it gets.

\* socket.emit on the client side.
ClientEmit(chan, s, events) == [chan EXCEPT ![s] = @ \o events]

\* A delivery that puts the new events ahead of those still in flight.
DeliverAtFront(chan, events, from, seq) ==
    [t \in Sockets |->
        LET mine == SelectSeq(events, LAMBDA e : e.to = t)
        IN [i \in 1..Len(mine) |->
                [ev |-> mine[i].ev, shouldCreateOffer |-> mine[i].shouldCreateOffer,
                 from |-> from, seq |-> seq]]
           \o chan[t]]

\* The events of a handler's output, each put on the channel of its recipient.
\* An entry keeps the socket whose event the handler ran for and the position
\* of that event among those the server has taken from the socket.
Deliver(chan, events, from, seq) ==
    [t \in Sockets |->
        LET mine == SelectSeq(events, LAMBDA e : e.to = t)
        IN chan[t] \o [i \in 1..Len(mine) |->
                        [ev |-> mine[i].ev, shouldCreateOffer |-> mine[i].shouldCreateOffer,
                         from |-> from, seq |-> seq]]]

\* The effect of TextChat on mount: join the queue, register the handlers.
Mount(s) ==
    /\ s \in connected
    /\ s \notin mounted
    /\ mounted' = mounted \cup {s}
    /\ toServer' = ClientEmit(toServer, s, <<"joinTextChat">>)
    /\ UNCHANGED <<running, connected, closed, stores, rooms, emitted, last, counters,
                   isConnected, toClient, nNexts, received, served>>

\* handleNext; the button is disabled while isConnected is false.
HandleNext(s) ==
    /\ s \in mounted
    /\ isConnected[s]
    /\ nNexts < MaxNexts
    /\ nNexts' = nNexts + 1
    /\ isConnected' = [isConnected EXCEPT ![s] = FALSE]
    /\ toServer' = ClientEmit(toServer, s, <<"findNewPartner", "joinTextChat">>)
    /\ UNCHANGED <<running, connected, closed, stores, rooms, emitted, last, counters,
                   mounted, toClient, received, served>>

\* The page's handlers of chatMatched, messageReceived and partnerDisconnected.
ClientReceive(s) ==
    /\ s \in mounted
    /\ toClient[s] # <<>>
    /\ toClient' = [toClient EXCEPT ![s] = Tail(@)]
    /\ LET ev == Head(toClient[s]).ev
       IN CASE ev = "chatMatched" ->
                 /\ isConnected' = [isConnected EXCEPT ![s] = TRUE]
                 /\ UNCHANGED toServer
            [] ev = "partnerDisconnected" ->
                 /\ isConnected' = [isConnected EXCEPT ![s] = FALSE]
                 /\ toServer' = ClientEmit(toServer, s, <<"joinTextChat">>)
            [] OTHER -> UNCHANGED <<isConnected, toServer>>
    /\ UNCHANGED <<running, connected, closed, stores, rooms, emitted, last, counters,
                   mounted, nNexts, received, served>>

\* The server takes the next event of a socket and runs its handler.
Serve(s) ==
    /\ toServer[s] # <<>>
    /\ LET op == Head(toServer[s])
       IN CASE op = "joinTextChat" -> JoinTextChat(s, "Anonymous")
            [] op = "findNewPartner" -> FindNewPartner(s)
    /\ toServer' = [toServer EXCEPT ![s] = Tail(@)]
    /\ toClient' = Deliver(toClient, emitted', s, served[s])
    /\ UNCHANGED <<counters, mounted, isConnected, nNexts, received, served>>

\* The tab is closed: what the page had emitted and not sent is lost, and the
\* server runs its disconnect handler.
Close(s) ==
    /\ Disconnect(s)
    /\ mounted' = mounted \ {s}
    /\ isConnected' = [isConnected EXCEPT ![s] = FALSE]
    /\ toServer' = [toServer EXCEPT ![s] = <<>>]
    /\ toClient' = [Deliver(toClient, emitted', s, served[s]) EXCEPT ![s] = <<>>]
    /\ UNCHANGED <<counters, nNexts, received, served>>

ProtoNext ==
    \/ \E s \in Sockets : Connect(s) /\ UNCHANGED <<counters, clients>>
    \/ \E s \in Sockets : Mount(s)
    \/ \E s \in Sockets : HandleNext(s)
    \/ \E s \in Sockets : ClientReceive(s)
    \/ \E s \in Sockets : Serve(s)
    \/ \E s \in Sockets : Close(s)

ProtoSpec == Init /\ [][ProtoNext]_vars

\* ------------------------------------------------ the VideoChat protocol
\* The server driven by VideoChat pages that stay with the partner they get:
\* a page joins the video queue on mount; the page told to create the offer
\* emits webrtc-offer and then the candidate its peer connection gathers; the
\* page that gets the offer emits webrtc-answer and then its candidate.

\* The effect of VideoChat on mount.
MountVideo(s) ==
    /\ s \in connected
    /\ s \notin mounted
    /\ mounted' = mounted \cup {s}
    /\ toServer' = ClientEmit(toServer, s, <<"joinVideoChat">>)
    /\ UNCHANGED <<running, connected, closed, stores, rooms, emitted, last, counters,
                   isConnected, toClient, nNexts, received, served>>

IsSignal(ev) == ev \in {"webrtc-offer", "webrtc-answer", "webrtc-ice-candidate"}

\* The page's handlers of videoChatMatched, webrtc-offer, webrtc-answer,
\* webrtc-ice-candidate and partnerDisconnected.
ReceiveVideo(s) ==
    /\ s \in mounted
    /\ toClient[s] # <<>>
    /\ toClient' = [toClient EXCEPT ![s] = Tail(@)]
    /\ LET e == Head(toClient[s])
       IN /\ received' = [received EXCEPT ![s] = IF IsSignal(e.ev) THEN Append(@, e) ELSE @]
          /\ CASE e.ev = "videoChatMatched" ->
                   /\ isConnected' = [isConnected EXCEPT ![s] = TRUE]
                   /\ toServer' = ClientEmit(toServer, s,
                                     IF e.shouldCreateOffer
                                     THEN <<"webrtc-offer", "webrtc-ice-candidate">>
                                     ELSE <<>>)
               [] e.ev = "webrtc-offer" ->
                   /\ toServer' = ClientEmit(toServer, s,
                                     <<"webrtc-answer", "webrtc-ice-candidate">>)
                   /\ UNCHANGED isConnected
               [] e.ev = "partnerDisconnected" ->
                   /\ isConnected' = [isConnected EXCEPT ![s] = FALSE]
                   /\ toServer' = ClientEmit(toServer, s, <<"joinVideoChat">>)
               [] OTHER -> UNCHANGED <<isConnected, toServer>>
    /\ UNCHANGED <<running, connected, closed, stores, rooms, emitted, last, counters,
                   mounted, nNexts, served>>

\* The server takes the next event of a socket and runs its handler.  The
\* page's signaling payloads carry no roomId.
ServeVideo(s) ==
    /\ toServer[s] # <<>>
    /\ LET op == Head(toServer[s])
       IN CASE op = "joinVideoChat" -> JoinVideoChat(s, "Anonymous")
            [] op = "webrtc-offer" -> WebrtcOffer(s, NoRoom)
            [] op = "webrtc-answer" -> WebrtcAnswer(s, NoRoom)
            [] op = "webrtc-ice-candidate" -> WebrtcIceCandidate(s, NoRoom)
    /\ toServer' = [toServer EXCEPT ![s] = Tail(@)]
    /\ served' = [served EXCEPT ![s] = @ + 1]
    /\ toClient' = Deliver(toClient, emitted', s, served'[s])
    /\ UNCHANGED <<counters, mounted, isConnected, nNexts, received>>

VideoNext ==
    \/ \E s \in Sockets : Connect(s) /\ UNCHANGED <<counters, clients>>
    \/ \E s \in Sockets : MountVideo(s)
    \/ \E s \in Sockets : ReceiveVideo(s)
    \/ \E s \in Sockets : ServeVideo(s)

VideoSpec == Init /\ [][VideoNext]_vars

\* ================================================================ claims
\* Vocabulary of the claims.
InQueue(queue, s) == \E i \in 1..Len(queue) : queue[i].socket = s
Waiting(s) == InQueue(textChatQueue, s) \/ InQueue(videoChatQueue, s)
Bound(s) == s \in DOMAIN socketToRoom
BoundTo(roomId) == {t \in connected : Bound(t) /\ socketToRoom[t] = roomId}
Recipients(events) == {events[i].to : i \in 1..Len(events)}
IsRelay(op) == op \in {"sendMessage", "sendRoomMessage", "webrtc-offer", "webrtc-answer",
                       "webrtc-ice-candidate"}
IsMatch(events) == Len(events) = 2 /\ events[1].ev \in {"chatMatched", "videoChatMatched"}

\* C1: no connection is at once waiting in a queue and bound to a room.
C1_WaitingXorBound == \A s \in Sockets : ~(Waiting(s) /\ Bound(s))

\* The connections a sendMessage of c would reach, and those whose sendMessage
\* would reach c.
Partners(c) ==
    Recipients(SendMessageEvents(c))
    \cup {t \in connected \ {c} : c \in Recipients(SendMessageEvents(t))}

\* The connections socket.io holds in a broadcast room.
RoomMembers(roomId) == {t \in connected : roomId \in rooms[t]}

\* C2: every connection has at most one active partner, also when every client
\* is a TextChat page.  Stated of the states where no generated identifier is
\* shared by more than the two connections of a match, so that a violation owes
\* nothing to generateRoomId returning the same identifier twice.
C2_AtMostOnePartner ==
    (\A r \in RandomRoomIds : Cardinality(RoomMembers(r)) <= 2)
        => \A c \in connected : Cardinality(Partners(c)) <= 1

\* C3: the two connections of a newly matched random room are distinct.
C3_NoSelfMatch == IsMatch(emitted) => emitted[1].to # emitted[2].to

\* C4: n joinTextChat requests form at most floor(n/2) chatMatched pairs.
C4_MatchesAtMostHalf == 2 * chatMatches <= textRequests

\* Three requests have been handled and one pair formed.
C4_Witness == textRequests = 3 /\ chatMatches = 1

\* C5: a sendMessage of a connection bound to room R is delivered to exactly the
\* other connections whose binding is R.
C5_SendMessageExact ==
    \A s \in connected :
        Bound(s) => Recipients(SendMessageEvents(s)) = BoundTo(socketToRoom[s]) \ {s}

\* C6: whatever relay event a connection sends, with whatever roomId in the
\* payload, the recipients are among the other connections bound to the
\* sender's own bound room.
C6_RelayConfined ==
    IsRelay(last.op) =>
        Recipients(emitted) \subseteq
            (IF Bound(last.socket) THEN BoundTo(socketToRoom[last.socket]) \ {last.socket}
             ELSE {})

\* C7: a relay event of a connection with no bound room is delivered to nobody.
C7_UnboundDropped ==
    (IsRelay(last.op) /\ ~Bound(last.socket)) => emitted = <<>>

\* C8: a connection whose disconnect handler has run is in neither queue and
\* has no entry in socketToRoom or socketToUsername.
C8_DisconnectPurges ==
    \A c \in closed :
        /\ ~InQueue(textChatQueue, c)
        /\ ~InQueue(videoChatQueue, c)
        /\ c \notin DOMAIN socketToRoom
        /\ c \notin DOMAIN socketToUsername

\* The one connection that was waiting for a text partner has disconnected,
\* while bound to a room it shared with another connection.
C8_Witness ==
    /\ last.op = "disconnect"
    /\ emitted # <<>>
    /\ textRequests = 1 /\ chatMatches = 0 /\ textChatQueue = <<>>

\* C9: a disconnected connection is in no room's occupant list; so once every
\* connection has disconnected, no private room lists an occupant.
C9_NoOccupantLeft ==
    (closed # {} /\ connected = {}) =>
        \A r \in DOMAIN privateRooms : privateRooms[r].participants = <<>>

\* C10: when a member of a random room disconnects or sends findNewPartner, no
\* connection stays bound to that room's identifier.
C10_RandomRoomDiscarded ==
    [][\A s \in Sockets :
          (/\ Bound(s)
           /\ socketToRoom[s] \in RandomRoomIds \ DOMAIN privateRooms
           /\ last'.socket = s
           /\ last'.op \in {"findNewPartner", "disconnect"}
           /\ s \notin DOMAIN socketToRoom')
          => \A t \in DOMAIN socketToRoom' : socketToRoom'[t] # socketToRoom[s]]_vars

\* The step handles findNewPartner of s, which was bound to a random room that
\* another connection was bound to as well.
NextOfPaired(s) ==
    /\ last'.op = "findNewPartner" /\ last'.socket = s
    /\ Bound(s)
    /\ socketToRoom[s] \in RandomRoomIds
    /\ BoundTo(socketToRoom[s]) \ {s} # {}

GotEvent(events, t, ev) == \E i \in 1..Len(events) : events[i].to = t /\ events[i].ev = ev

\* C11 as stated: handling findNewPartner of a connection paired in a random
\* room unbinds it, delivers partnerDisconnected to its partner and leaves it
\* waiting in a queue.
C11_FindNewPartnerRequeues ==
    [][\A s \in Sockets :
          NextOfPaired(s) =>
              /\ s \notin DOMAIN socketToRoom'
              /\ \A t \in BoundTo(socketToRoom[s]) \ {s} : GotEvent(emitted', t, "partnerDisconnected")
              /\ InQueue(textChatQueue', s) \/ InQueue(videoChatQueue', s)]_vars

\* C11 as amended: handling findNewPartner of a connection paired in a random
\* room unbinds it, delivers partnerDisconnected to its partner and leaves both
\* queues as they were; the connection waits again once the join request its
\* page emits next is handled.
C11_FindNewPartnerUnbinds ==
    [][\A s \in Sockets :
          NextOfPaired(s) =>
              /\ s \notin DOMAIN socketToRoom'
              /\ \A t \in BoundTo(socketToRoom[s]) \ {s} : GotEvent(emitted', t, "partnerDisconnected")
              /\ textChatQueue' = textChatQueue
              /\ videoChatQueue' = videoChatQueue]_vars

\* findNewPartner of a matched connection has been handled: its partner got
\* partnerDisconnected and is still bound to the random room, and the caller
\* is neither bound nor waiting.
C11_Witness ==
    /\ last.op = "findNewPartner"
    /\ ~Bound(last.socket) /\ ~Waiting(last.socket)
    /\ \E t \in connected :
          /\ GotEvent(emitted, t, "partnerDisconnected")
          /\ Bound(t) /\ socketToRoom[t] \in RandomRoomIds \ DOMAIN privateRooms

\* The last event handled was findNewPartner of a, which reached b, and b is
\* bound to a random room, a member of no other room and now alone in it: the
\* two were paired in that room, and no other connection with them, when a
\* left it.
JustLeft(a, b) ==
    /\ a # b
    /\ last.op = "findNewPartner" /\ last.socket = a
    /\ GotEvent(emitted, b, "partnerDisconnected")
    /\ Bound(b) /\ socketToRoom[b] \in RandomRoomIds
    /\ rooms[b] = {SidRoom(b), socketToRoom[b]}
    /\ RoomMembers(socketToRoom[b]) = {b}

\* C12: after findNewPartner of A, paired with B, A is not matched with B
\* again by a join request that B issued before that findNewPartner.  The
\* step is the first the server takes after the findNewPartner, so any queue
\* entry of B it uses is older than the findNewPartner.
C12_NoRematchByOldJoin ==
    [][\A a, b \in Sockets :
          JustLeft(a, b) =>
              ~(/\ last'.op \in {"joinTextChat", "joinVideoChat"}
                /\ last'.socket = a
                /\ IsMatch(emitted')
                /\ Recipients(emitted') = {a, b})]_vars

IsJoin(op) == op \in {"joinTextChat", "joinVideoChat", "joinPrivateRoom"}

\* The number of entries of s in a queue.
Entries(queue, s) == Cardinality({i \in 1..Len(queue) : queue[i].socket = s})

\* The names in the occupant list of a room of a room table.
Occupants(table, roomId) ==
    IF roomId \in DOMAIN table
    THEN {table[roomId].participants[i] : i \in 1..Len(table[roomId].participants)}
    ELSE {}

\* C13: when a connection that is waiting or bound issues a join request, its
\* only membership afterwards is the one the new request produced: it has no
\* entry in the other queue and at most one in the queue of the request, it is
\* in no broadcast room but its own and the one it is now bound to, and a
\* private room it has left does not list its name.
C13_DuplicateJoinDiscardsStale ==
    [][\A s \in Sockets :
          (/\ IsJoin(last'.op) /\ last'.socket = s
           /\ Waiting(s) \/ Bound(s))
          => /\ last'.op # "joinTextChat" => ~InQueue(textChatQueue', s)
             /\ last'.op # "joinVideoChat" => ~InQueue(videoChatQueue', s)
             /\ Entries(textChatQueue', s) + Entries(videoChatQueue', s) <= 1
             /\ rooms'[s] \subseteq {SidRoom(s), MapGet(socketToRoom', s, NoRoom)}
             /\ (Bound(s) /\ MapGet(socketToRoom', s, NoRoom) # socketToRoom[s])
                    => socketToUsername[s] \notin Occupants(privateRooms', socketToRoom[s])]_vars

\* C14: a joinVideoChat request that finds a waiter emits two videoChatMatched events
\* with the same roomId; the one to the new arrival has shouldCreateOffer true,
\* the one to the dequeued waiter has it false, so exactly one has it true.
C14_VideoOfferToNewArrival ==
    [][(last'.op = "joinVideoChat" /\ last'.username \in Names /\ Len(videoChatQueue) > 0)
          => /\ Len(emitted') = 2
             /\ \A i \in 1..2 : emitted'[i].ev = "videoChatMatched"
             /\ emitted'[1].roomId = emitted'[2].roomId
             /\ emitted'[1].roomId \in VideoRoomIds
             /\ Cardinality({i \in 1..2 : emitted'[i].shouldCreateOffer}) = 1
             /\ \E i \in 1..2 : /\ emitted'[i].to = last'.socket
                                 /\ emitted'[i].shouldCreateOffer
             /\ \E i \in 1..2 : /\ emitted'[i].to = Head(videoChatQueue).socket
                                 /\ ~emitted'[i].shouldCreateOffer]_vars

\* A joinVideoChat has matched two distinct connections, and a third
\* connection had no part in it.
C14_Witness ==
    /\ last.op = "joinVideoChat"
    /\ Len(emitted) = 2
    /\ emitted[1].to = last.socket /\ emitted[1].shouldCreateOffer
    /\ emitted[2].to # last.socket /\ ~emitted[2].shouldCreateOffer
    /\ Cardinality(connected) = 3

\* The connections that an event with shouldCreateOffer = true was sent to.
Offerers(events) == {events[i].to : i \in {j \in 1..Len(events) : events[j].shouldCreateOffer}}

\* Every request handled so far was the first join request of its connection,
\* and no connection has left a room or a queue since.
OnlyFirstJoins ==
    /\ closed = {}
    /\ nRequests = Cardinality(DOMAIN socketToUsername)
    /\ \A s \in DOMAIN socketToUsername : Bound(s) \/ Waiting(s)

\* C15: when a joinPrivateRoom leaves the room with exactly two occupants,
\* exactly one connection receives shouldCreateOffer = true, and it is the
\* connection of the first occupant; with any other number of occupants no
\* connection receives it.  Stated of the runs in which every request is the
\* first join request of its connection, so that a violation owes nothing to a
\* duplicate join; the first occupant is then among the connections that were
\* in the room before the join.
C15_OneOffererInPrivateRoom ==
    [][(last'.op = "joinPrivateRoom" /\ last'.username \in Names /\ OnlyFirstJoins
          /\ last'.socket \notin DOMAIN socketToUsername) =>
          LET participants == privateRooms'[last'.roomId].participants
          IN IF Len(participants) = 2
             THEN /\ Cardinality(Offerers(emitted')) = 1
                  /\ Offerers(emitted') \subseteq RoomMembers(last'.roomId) \ {last'.socket}
             ELSE Offerers(emitted') = {}]_vars

\* No name is twice in a list.
NoDuplicate(seq) == \A i, j \in 1..Len(seq) : seq[i] = seq[j] => i = j

\* C16: a joinPrivateRoom of a connection that is bound to the room and listed
\* in it under the name of the request leaves the occupant list as it was, and
\* no occupant list ever holds a name twice.
C16_JoinPrivateRoomIdempotent ==
    [][/\ \A r \in DOMAIN privateRooms' : NoDuplicate(privateRooms'[r].participants)
       /\ \A s \in Sockets :
            (/\ last'.op = "joinPrivateRoom" /\ last'.socket = s
             /\ Bound(s) /\ socketToRoom[s] = last'.roomId
             /\ socketToUsername[s] = last'.username
             /\ last'.username \in Occupants(privateRooms, last'.roomId))
            => privateRooms'[last'.roomId].participants
                   = privateRooms[last'.roomId].participants]_vars

\* Socket 1 joined a room as "Anonymous", socket 2 joined it as "Kim", and
\* socket 1 has joined it as "Anonymous" once more.
C16_Witness ==
    /\ last = Input("joinPrivateRoom", 1, PrivateCode(1), "Anonymous")
    /\ nRequests = 3
    /\ closed = {}
    /\ DOMAIN socketToUsername = {1, 2}
    /\ socketToUsername[2] = "Kim"
    /\ DOMAIN privateRooms = {PrivateCode(1)}
    /\ privateRooms[PrivateCode(1)].participants = <<"Anonymous", "Kim">>

\* C17: when a connection bound to a private room disconnects while another
\* live connection bound to the room holds the same display name, the name
\* stays in the occupant list and the room stays in the table; and a private
\* room leaves the table only when no connection stays bound to it.
C17_SharedNameKept ==
    [][/\ \A s \in Sockets :
            (/\ last'.op = "disconnect" /\ last'.socket = s
             /\ Bound(s) /\ s \in DOMAIN socketToUsername
             /\ socketToUsername[s] \in Occupants(privateRooms, socketToRoom[s])
             /\ \E t \in BoundTo(socketToRoom[s]) \ {s} :
                    MapGet(socketToUsername, t, NoName) = socketToUsername[s])
            => socketToUsername[s] \in Occupants(privateRooms', socketToRoom[s])
       /\ \A r \in DOMAIN privateRooms \ DOMAIN privateRooms' :
            \A t \in connected' : MapGet(socketToRoom', t, NoRoom) # r]_vars

\* C18: every connection whose binding is the identifier of a private room
\* (one that no random room can have) finds that room in the table, with its
\* current display name in the occupant list.
C18_BindingConsistent ==
    \A s \in DOMAIN socketToRoom :
        socketToRoom[s] \notin RandomRoomIds
            => /\ socketToRoom[s] \in DOMAIN privateRooms
               /\ MapGet(socketToUsername, s, NoName)
                      \in Occupants(privateRooms, socketToRoom[s])

\* C19: every private room of the table has a live connection bound to it.
C19_NoRoomLeaked == \A r \in DOMAIN privateRooms : BoundTo(r) # {}

\* C20: the identifier that joinTextChat or joinVideoChat gives a new random
\* room is the identifier of no room that a connection, other than the two
\* being matched, is bound to at that moment.
C20_FreshRoomId ==
    [][(last'.op \in {"joinTextChat", "joinVideoChat"} /\ IsMatch(emitted'))
          => \A t \in connected \ Recipients(emitted') :
                MapGet(socketToRoom, t, NoRoom) # emitted'[1].roomId]_vars

\* C21: a random room never has more than two occupants.  Stated of the step
\* that follows a match of two distinct connections which are the only
\* members of the new room: after it, at most two connections are in the
\* room's broadcast room or bound to its identifier.
C21_RandomRoomAtMostTwo ==
    [][\A r \in RandomRoomIds :
          (/\ IsMatch(emitted)
           /\ emitted[1].roomId = r
           /\ emitted[1].to # emitted[2].to
           /\ RoomMembers(r) \cup BoundTo(r) = Recipients(emitted))
          => Cardinality({t \in connected' :
                            \/ r \in rooms'[t]
                            \/ MapGet(socketToRoom', t, NoRoom) = r}) <= 2]_vars

\* The step is the server handling the event op of socket s.
Handled(op, s) ==
    /\ last'.op = op /\ last'.socket = s
    /\ \/ nRequests' = nRequests + 1
       \/ toServer[s] # <<>> /\ toServer'[s] = Tail(toServer[s])

\* A sequence without its i-th element.
Without(seq, i) == SubSeq(seq, 1, i - 1) \o SubSeq(seq, i + 1, Len(seq))

\* C22: text matching is first in, first out.  A joinTextChat that finds
\* waiters is matched with the head of the queue and leaves the others in
\* their order; one that finds none is appended at the end; and no other step
\* adds an entry or reorders the queue.  So of two waiters matched with later
\* arrivals, the one that entered first is matched first.
C22_OldestWaiterFirst ==
    [][/\ \A s \in Sockets :
            Handled("joinTextChat", s) =>
                IF Len(textChatQueue) > 0
                THEN /\ IsMatch(emitted')
                     /\ emitted'[1].to = s
                     /\ emitted'[2].to = Head(textChatQueue).socket
                     /\ textChatQueue' = Tail(textChatQueue)
                ELSE /\ emitted' = <<>>
                     /\ textChatQueue' = Append(textChatQueue,
                                              [socket |-> s, username |-> last'.username])
       /\ (\A s \in Sockets : ~Handled("joinTextChat", s)) =>
            \/ textChatQueue' = textChatQueue
            \/ \E i \in 1..Len(textChatQueue) : textChatQueue' = Without(textChatQueue, i)]_vars

\* Page 1 was matched with a later arrival, and after it page 2, which
\* entered the queue later, has been matched with the later arrival 3.
C22_Witness ==
    /\ last.op = "joinTextChat" /\ last.socket = 3
    /\ IsMatch(emitted)
    /\ emitted[2].to = 2
    /\ Bound(1) /\ isConnected[1]
    /\ closed = {}

\* All the entries of a queue are of one connection.
OneWaiter(queue) == \A i, j \in 1..Len(queue) : queue[i].socket = queue[j].socket

\* A handled join on a queue that holds entries consumes exactly one entry,
\* that of the waiter it is matched with.
ConsumesOne(op, queue, queueAfter) ==
    \A s \in Sockets :
        (Handled(op, s) /\ Len(queue) > 0)
        => /\ IsMatch(emitted')
           /\ Len(queueAfter) = Len(queue) - 1
           /\ Entries(queueAfter, emitted'[2].to) = Entries(queue, emitted'[2].to) - 1

\* C23: the handlers run one at a time, so under every interleaving of the
\* join requests of the connections a waiting entry is consumed by one match
\* only, and two connections never both wait in the same queue: the second to
\* ask is matched with the first.
C23_PopOrAppendAtomic ==
    [][/\ OneWaiter(textChatQueue') /\ OneWaiter(videoChatQueue')
       /\ ConsumesOne("joinTextChat", textChatQueue, textChatQueue')
       /\ ConsumesOne("joinVideoChat", videoChatQueue, videoChatQueue')]_vars

\* Two connections asked for a video partner and were matched with each
\* other, while a third connection waits for a text partner.
C23_Witness ==
    /\ last.op = "joinVideoChat"
    /\ IsMatch(emitted)
    /\ emitted[1].to # emitted[2].to
    /\ videoChatQueue = <<>>
    /\ Len(textChatQueue) = 1
    /\ textChatQueue[1].socket \notin Recipients(emitted)

\* The signaling events a page has handled followed by those in flight to it.
Signals(t) == received[t] \o SelectSeq(toClient[t], LAMBDA e : IsSignal(e.ev))

\* The names of the events of a sequence of channel entries.
EvOf(entries) == [i \in 1..Len(entries) |-> entries[i].ev]

NamesOf(seq) == {seq[i] : i \in 1..Len(seq)}

\* The list after is the names of the list before that remain, in their
\* order, followed by names the list before did not hold.
OrderKept(before, after) ==
    LET kept == SelectSeq(before, LAMBDA n : n \in NamesOf(after))
    IN /\ Len(kept) <= Len(after)
       /\ SubSeq(after, 1, Len(kept)) = kept
       /\ \A i \in (Len(kept) + 1)..Len(after) : after[i] \notin NamesOf(before)

MalformedJoinOf(s) ==
    /\ last'.op \in JoinEvents /\ last'.socket = s
    /\ last'.username = NoName
    /\ s \in connected
    /\ \E t \in connected \ {s} : Waiting(t) \/ Bound(t)

\* C26: a join event without a payload is not fatal: the server keeps running,
\* and every other connection keeps its connection, its queue entries, its room
\* binding, its identity binding, and the occupant lists stay as they were.
C26_MalformedJoinNotFatal ==
    [][\A s \in Sockets :
          MalformedJoinOf(s) =>
              /\ running'
              /\ privateRooms' = privateRooms
              /\ \A t \in connected \ {s} :
                    /\ t \in connected'
                    /\ Entries(textChatQueue', t) = Entries(textChatQueue, t)
                    /\ Entries(videoChatQueue', t) = Entries(videoChatQueue, t)
                    /\ MapGet(socketToRoom', t, NoRoom) = MapGet(socketToRoom, t, NoRoom)
                    /\ MapGet(socketToUsername', t, NoName) = MapGet(socketToUsername, t, NoName)]_vars

\* C27: on every text or video match of two connections, both are bound to
\* the roomId that both matched events carry, and the partnerUsername each
\* receives is the display name socketToUsername holds for the other.
C27_MatchCarriesCurrentNames ==
    [][(/\ last'.op \in {"joinTextChat", "joinVideoChat"}
        /\ IsMatch(emitted')
        /\ emitted'[1].to # emitted'[2].to)
          => /\ emitted'[1].roomId = emitted'[2].roomId
             /\ MapGet(socketToRoom', emitted'[1].to, NoRoom) = emitted'[1].roomId
             /\ MapGet(socketToRoom', emitted'[2].to, NoRoom) = emitted'[1].roomId
             /\ emitted'[1].username = MapGet(socketToUsername', emitted'[2].to, NoName)
             /\ emitted'[2].username = MapGet(socketToUsername', emitted'[1].to, NoName)]_vars

\* The occupant list the table holds for a room; empty when it has no entry.
ListOf(table, roomId) ==
    IF roomId \in DOMAIN table THEN table[roomId].participants ELSE <<>>

\* Connection t is sent partnerDisconnected and, later, userLeftRoom with the
\* given participants.
ToldOfLeaver(events, t, participants) ==
    \E i, j \in 1..Len(events) :
        /\ i < j
        /\ events[i].to = t /\ events[i].ev = "partnerDisconnected"
        /\ events[j].to = t /\ events[j].ev = "userLeftRoom"
        /\ events[j].participants = participants

\* C28: when a connection bound to a private room disconnects, every other
\* connection of the room is sent partnerDisconnected and then userLeftRoom,
\* whose participants are the room's occupant list after the removal.
C28_LeaverAnnounced ==
    [][\A s \in Sockets :
        (/\ last'.op = "disconnect" /\ last'.socket = s
         /\ Bound(s) /\ socketToRoom[s] \notin RandomRoomIds)
        => \A t \in (RoomMembers(socketToRoom[s]) \cup BoundTo(socketToRoom[s])) \ {s} :
              ToldOfLeaver(emitted', t, ListOf(privateRooms', socketToRoom[s]))]_vars

\* A handled join on one queue leaves the other queue as it was; it ends in a
\* match exactly when its own queue holds an entry, and then the partner is
\* the head of its own queue, told by the event ev of a room with that prefix.
OwnQueueOnly(op, queue, other, otherAfter, ev, roomIds) ==
    \A s \in Sockets :
        Handled(op, s) =>
            /\ otherAfter = other
            /\ IsMatch(emitted') <=> Len(queue) > 0
            /\ emitted' # <<>> =>
                  /\ Len(queue) > 0
                  /\ emitted'[2].to = Head(queue).socket
                  /\ \A i \in 1..Len(emitted') :
                        emitted'[i].ev = ev /\ emitted'[i].roomId \in roomIds

\* C29: the two queues are independent.  joinTextChat leaves videoChatQueue
\* alone and pairs the caller only with the head of textChatQueue, whatever
\* videoChatQueue holds; joinVideoChat likewise with the queues exchanged.
C29_QueuesIndependent ==
    [][/\ OwnQueueOnly("joinTextChat", textChatQueue, videoChatQueue, videoChatQueue',
                       "chatMatched", TextRoomIds)
       /\ OwnQueueOnly("joinVideoChat", videoChatQueue, textChatQueue, textChatQueue',
                       "videoChatMatched", VideoRoomIds)]_vars

\* A connection waits for a video partner; a joinTextChat of another
\* connection has found the text queue empty and waits there, unmatched.
C29_Witness ==
    /\ last.op = "joinTextChat"
    /\ emitted = <<>>
    /\ Len(videoChatQueue) = 1 /\ Len(textChatQueue) = 1
    /\ videoChatQueue[1].socket # textChatQueue[1].socket
    /\ textChatQueue[1].socket = last.socket

\* A queue holds at most one entry before and after the step, grows only from
\* empty, and a handled join that finds a waiter empties it by matching the
\* waiter.
AtMostOneWaiting(op, queue, queueAfter) ==
    /\ Len(queue) <= 1 /\ Len(queueAfter) <= 1
    /\ Len(queueAfter) > Len(queue) => queue = <<>>
    /\ \A s \in Sockets :
          (Handled(op, s) /\ queue # <<>>)
          => /\ queueAfter = <<>>
             /\ GotEvent(emitted', queue[1].socket,
                         IF op = "joinTextChat" THEN "chatMatched" ELSE "videoChatMatched")

\* C30: textChatQueue and videoChatQueue hold 0 or 1 entry in every reachable
\* state, an entry is appended only to an empty queue, and a waiting
\* connection is matched by the next join request handled on its queue.
C30_QueueAtMostOne ==
    [][/\ AtMostOneWaiting("joinTextChat", textChatQueue, textChatQueue')
       /\ AtMostOneWaiting("joinVideoChat", videoChatQueue, videoChatQueue')]_vars

\* A waiter has disconnected, a second connection has taken the empty text
\* queue, and the third text request has matched a third connection with it.
C30_Witness ==
    /\ last.op = "joinTextChat"
    /\ IsMatch(emitted) /\ emitted[1].to # emitted[2].to
    /\ closed # {} /\ closed \cap Recipients(emitted) = {}
    /\ textRequests = 3 /\ chatMatches = 1
    /\ textChatQueue = <<>>

\* The connections that have an entry in a queue.
WaitersOf(queue) == {queue[i].socket : i \in 1..Len(queue)}

\* C31: every entry of either queue is of a connection that has not
\* disconnected, so a handled join is never matched with, and binds no room
\* to, a connection that is gone.
C31_NoGoneWaiter ==
    [][/\ WaitersOf(textChatQueue') \cup WaitersOf(videoChatQueue') \subseteq connected'
       /\ (WaitersOf(textChatQueue') \cup WaitersOf(videoChatQueue')) \cap closed' = {}
       /\ \A s \in Sockets :
            (Handled("joinTextChat", s) \/ Handled("joinVideoChat", s))
            => /\ Recipients(emitted') \subseteq connected'
               /\ \A t \in DOMAIN socketToRoom' :
                     MapGet(socketToRoom, t, NoRoom) # socketToRoom'[t] => t \in connected']_vars

\* The only two requests handled were joinTextChat, no match was made and
\* the caller of the second waits alone: the first waiter disconnected, and
\* the second request found the queue empty.
C31_Witness ==
    /\ last.op = "joinTextChat"
    /\ emitted = <<>>
    /\ closed # {}
    /\ nRequests = 2 /\ textRequests = 2 /\ chatMatches = 0
    /\ WaitersOf(textChatQueue) = {last.socket}

\* The step leaves the queues, the room table, the bindings and the room
\* memberships as they were.
StoresKept == stores' = stores /\ rooms' = rooms

\* C32: relay events are pure forwarding.  Handling sendMessage,
\* sendRoomMessage, webrtc-offer, webrtc-answer or webrtc-ice-candidate leaves
\* both queues, the room table, socketToRoom and socketToUsername unchanged,
\* and the message log of every private room stays empty; findNewPartner of a
\* connection with no binding changes no state and delivers nothing.
C32_RelayPureForwarding ==
    [][/\ \A s \in Sockets, op \in {"sendMessage", "sendRoomMessage", "webrtc-offer",
                                    "webrtc-answer", "webrtc-ice-candidate"} :
            Handled(op, s) => StoresKept
       /\ \A r \in DOMAIN privateRooms' : privateRooms'[r].messages = <<>>
       /\ \A s \in Sockets :
            (last'.op = "findNewPartner" /\ last'.socket = s /\ ~Bound(s))
            => StoresKept /\ emitted' = <<>> /\ connected' = connected]_vars

\* A sendRoomMessage has reached another connection of a private room that
\* has two occupants, and the log of the room is empty.
C32_Witness ==
    /\ last.op = "sendRoomMessage"
    /\ emitted # <<>>
    /\ last.roomId \in DOMAIN privateRooms
    /\ Len(privateRooms[last.roomId].participants) = 2
    /\ privateRooms[last.roomId].messages = <<>>

====
